---- MODULE Spec2Model ----
(***************************************************************************)
(* Model of service_monitor.py (ServiceMonitor): the lock-file guard       *)
(* (acquire_lock / release_lock), the bounded-retry recovery               *)
(* (perform_action) and the per-service check cycle with its alert gate    *)
(* (check_service), together with the persisted state table.               *)
(*                                                                         *)
(* The specifications share the variables:                                 *)
(*   LockSpec  - several monitor processes racing on the lock file, one    *)
(*               action per file-system step of acquire_lock/release_lock; *)
(*   Spec      - one monitor process running check cycles over the         *)
(*               configured services;                                      *)
(*   StoreSpec - save_state and load_state with a process that can be      *)
(*               killed inside a save;                                     *)
(*   RunSpec   - one process from __init__ to its exit: root check, lock,  *)
(*               control loop, signal handler, finally clause; RunLive is  *)
(*               RunSpec with every step of the process ending.            *)
(***************************************************************************)
EXTENDS Integers, Sequences, FiniteSets, TLC

(***************************************************************************)
(* Bounds of the model                                                     *)
(***************************************************************************)
NumProcs == 2
MaxFailures == 11      \* cap of the failure counter of a service alone
MaxOther == 1          \* cap of the failure counters of two services
MaxRunFailures == 2    \* cap of the failure counters in RunSpec
MaxStored == 1         \* cap of the counters in the tables of StoreSpec
MaxTicks == 2          \* cap of the clock: StartTime + MaxTicks advances

(***************************************************************************)
(* Program constants                                                       *)
(***************************************************************************)
ALERT_THRESHOLD == 10
ALERT_RATE_LIMIT == 3600
RETRY_COUNT == 3
CHECK_INTERVAL == 60

VARIABLES
    lockFile,    \* the lock file: NoFile or [ino, data]
    lpc,         \* position of each monitor process in acquire/release
    readPid,     \* the pid each process parsed from the lock file
    startFile,   \* history: the lock file when the process called acquire_lock
    solo,        \* history: no other process acted since the call began
    creates,     \* history: os.open attempts of each process's acquire_lock call
    SERVICES,    \* the configured services: sequence of [name, action, alarm]
    DAEMON_MODE, \* continuous (TRUE) or one-shot (FALSE) execution
    state,       \* self.state: the in-memory state table
    stateFile,   \* content of STATE_FILE, or Missing
    now,         \* time.time(), in seconds
    pc,          \* position of the monitor process
    idx,         \* index in SERVICES of the service being checked
    attempt,     \* loop variable of perform_action
    success,     \* value returned by perform_action
    trace,       \* history: the attempts of the running perform_action call
    ev,          \* history: the latest service check and what it did
    alertTimes,  \* history: per service, the times the alert decision was true
    pendingSend, \* history: per service, the latest send_email returned false
    scen,        \* history: per service, the current run of failed cycles
    saved,       \* history: the table of the last completed save_state
    running,     \* self.running
    isRoot,      \* os.geteuid() == 0
    exitCode,    \* exit status of the process, NoExit while it runs
    slice,       \* loop variable of the inter-cycle wait
    runHist      \* history: how run() went, see NoRun

lockVars == <<lockFile, lpc, readPid, startFile, solo, creates>>

monVars == <<SERVICES, DAEMON_MODE, state, stateFile, now, pc, idx, attempt,
             success, trace, ev, alertTimes, pendingSend, scen>>

runVars == <<saved, running, isRoot, exitCode, slice, runHist>>

vars == <<lockFile, lpc, readPid, startFile, solo, creates,
          SERVICES, DAEMON_MODE, state, stateFile, now, pc, idx, attempt,
          success, trace, ev, alertTimes, pendingSend, scen,
          saved, running, isRoot, exitCode, slice, runHist>>

(***************************************************************************)
(* Lock guard                                                              *)
(***************************************************************************)
Procs == 1..NumProcs            \* pids of the monitor processes
LivePid == NumProcs + 1         \* pid of a live process that is no monitor
DeadPid == NumProcs + 2         \* pid of no existing process

NoFile == [ino |-> 0, data |-> <<"absent">>]
ValueError == 0 - 1

\* str(os.getpid()): the decimal digits of the pid
RECURSIVE StrOfPid(_)
StrOfPid(n) ==
    IF n < 10 THEN <<n>> ELSE StrOfPid(n \div 10) \o <<n % 10>>

RECURSIVE IntOfDigits(_)
IntOfDigits(s) ==
    IF s = <<>> THEN 0
    ELSE 10 * IntOfDigits(SubSeq(s, 1, Len(s) - 1)) + s[Len(s)]

\* int(f.read().strip()): ValueError on an empty or non-numeric content
ParsePid(data) ==
    IF data = <<>> \/ \E i \in 1..Len(data) : data[i] \notin 0..9
    THEN ValueError
    ELSE IntOfDigits(data)

LiveStates == {"create", "write", "read", "kill", "remove", "held", "rel_remove"}

\* os.kill(pid, 0) does not raise: a process with that pid exists
ProcessExists(pid) ==
    \/ pid = LivePid
    \/ pid \in Procs /\ lpc[pid] \in LiveStates

InitialLockFiles ==
    { NoFile,
      [ino |-> LivePid, data |-> StrOfPid(LivePid)],
      [ino |-> DeadPid, data |-> StrOfPid(DeadPid)],
      [ino |-> DeadPid, data |-> <<>>] }

(***************************************************************************)
(* Service checks: configuration, state table, probes                      *)
(***************************************************************************)
Names == {"db", "web"}
ValidActions == {"restart", "start", "stop", "mask", "reload", "try-restart"}
VerifiedActions == {"start", "restart", "try-restart"}

Svc(n, a, al) == [name |-> n, action |-> a, alarm |-> al]

\* the configurations explored: every action kind, alarm set and not set,
\* one service or two
Configs ==
    { <<Svc("db", "start", TRUE), Svc("web", "stop", FALSE)>>,
      <<Svc("web", "mask", TRUE), Svc("db", "reload", TRUE)>>,
      <<Svc("db", "restart", TRUE)>>,
      <<Svc("db", "try-restart", FALSE)>>,
      <<Svc("web", "stop", TRUE)>> }

\* the cap of the failure counter of the i-th configured service: a service
\* configured alone is followed up to MaxFailures failures, the services of
\* a longer configuration up to MaxOther
FailureCap(i) == IF Len(SERVICES) = 1 THEN MaxFailures ELSE MaxOther

\* the clock starts at least one rate-limit period after the epoch
StartTime == ALERT_RATE_LIMIT
HalfLimit == ALERT_RATE_LIMIT \div 2
Deltas == {HalfLimit - 1, HalfLimit + 1}
MaxNow == StartTime + MaxTicks * (HalfLimit + 1)

\* status words printed by "systemctl is-active", as character sequences
S_active == <<"a", "c", "t", "i", "v", "e">>
S_inactive == <<"i", "n">> \o S_active
S_reloading == <<"r", "e", "l", "o", "a", "d", "i", "n", "g">>
S_failed == <<"f", "a", "i", "l", "e", "d">>

\* (returncode, stdout) of run_command("systemctl is-active ...");
\* a timeout or a failure to run the command gives (-1, "")
ProbeResults ==
    { [rc |-> 0, out |-> S_active],
      [rc |-> 0, out |-> S_reloading],
      [rc |-> 3, out |-> S_inactive],
      [rc |-> 3, out |-> S_failed],
      [rc |-> 0 - 1, out |-> <<>>] }

\* status words printed by "systemctl is-enabled"
S_enabled == <<"e", "n", "a", "b", "l", "e", "d">>
S_disabled == <<"d", "i", "s", "a", "b", "l", "e", "d">>
S_masked == <<"m", "a", "s", "k", "e", "d">>

\* (returncode, stdout) of run_command("systemctl is-enabled ...")
EnabledResults ==
    { [rc |-> 0, out |-> S_enabled],
      [rc |-> 1, out |-> S_disabled],
      [rc |-> 1, out |-> S_masked],
      [rc |-> 0 - 1, out |-> <<>>] }

\* returncode of run_command("systemctl list-unit-files | grep -q ...")
ExistsResults == {0, 1, 0 - 1}

\* returncode of run_command(cmd, timeout=30) for the action command
CmdResults == {0, 1, 0 - 1}

\* Python's "sub in s" on strings
Contains(s, sub) ==
    \E i \in 0..(Len(s) - Len(sub)) : SubSeq(s, i + 1, i + Len(sub)) = sub

\* rc == 0 and "active" in status
IsActive(probe) == probe.rc = 0 /\ Contains(probe.out, S_active)

\* check_service_exists: run_command(cmd)[0] == 0
ServiceExists(rc) == rc = 0

IsMasked_Never(r) == FALSE

\* is_service_masked: "masked" in stdout or rc != 0
IsMasked(r) == Contains(r.out, S_masked) \/ r.rc # 0

\* defaultdict(lambda: {"failures": 0, "last_alert": 0})
DefaultEntry == [failures |-> 0, last_alert |-> 0]

\* self.state[name]: reading a missing key inserts the default entry
Touch(t, k) == IF k \in DOMAIN t THEN t ELSE (k :> DefaultEntry) @@ t

EmptyTable == [k \in {} |-> DefaultEntry]
Missing == {<<"missing">>}

\* file contents that json.load rejects: bytes that are no JSON text, and the
\* file as open(..., 'w') leaves it until json.dump has written all of it
NotJson == {<<"notjson">>}
Truncated == {<<"truncated">>}

\* json.load(f) raises (json.JSONDecodeError)
JsonRaises(c) == c \in {NotJson, Truncated}

\* json.dump(dict(self.state), f): one member per key
JsonDump(t) == { <<k, t[k].failures, t[k].last_alert>> : k \in DOMAIN t }

JsonLoad_NoAlert(c) ==
    [k \in {e[1] : e \in c} |->
        LET e == CHOOSE x \in c : x[1] = k
        IN  [failures |-> e[2], last_alert |-> 0]]

\* json.load(f) wrapped in the defaultdict
JsonLoad(c) ==
    [k \in {e[1] : e \in c} |->
        LET e == CHOOSE x \in c : x[1] = k
        IN  [failures |-> e[2], last_alert |-> e[3]]]

SaveState_Fails(t, old) == old

\* save_state: the file is overwritten with the dump of the whole table
SaveState(t, old) == JsonDump(t)

\* load_state: a missing file leaves the empty table, and so does any
\* exception of open or json.load, which is logged as a warning
LoadState(file) ==
    IF file = Missing \/ JsonRaises(file) THEN EmptyTable ELSE JsonLoad(file)

\* the value of a counter with the default for a missing key
Failures(t, k) == IF k \in DOMAIN t THEN t[k].failures ELSE 0
LastAlert(t, k) == IF k \in DOMAIN t THEN t[k].last_alert ELSE 0

ResetFailures_Keep(t, k) == t

\* self.state[name]["failures"] = 0
ResetFailures(t, k) == [t EXCEPT ![k].failures = 0]

\* self.state[name]["failures"] += 1
CountFailure(t, k) == [t EXCEPT ![k].failures = t[k].failures + 1]

RecordAlert_Forget(t, k, time) == t

\* self.state[name]["last_alert"] = current_time
RecordAlert(t, k, time) == [t EXCEPT ![k].last_alert = time]

ShouldAlert_NoRateLimit(entry, alarm, t) ==
    /\ alarm
    /\ entry.failures >= ALERT_THRESHOLD

ShouldAlert_StrictThreshold(entry, alarm, t) ==
    /\ alarm
    /\ entry.failures > ALERT_THRESHOLD
    /\ t - entry.last_alert >= ALERT_RATE_LIMIT

\* the alert condition of check_service
ShouldAlert(entry, alarm, t) ==
    /\ alarm
    /\ entry.failures >= ALERT_THRESHOLD
    /\ t - entry.last_alert >= ALERT_RATE_LIMIT

\* action in ["start", "restart", "try-restart"]
NeedsVerify(action) == action \in VerifiedActions

AttemptOutcome_NoVerify(action, rc, probe) ==
    IF rc = 0
    THEN [res |-> "true", probes |-> IF NeedsVerify(action) THEN 1 ELSE 0]
    ELSE [res |-> "retry", probes |-> 0]

\* one iteration of the loop of perform_action: res "true" returns True,
\* "retry" goes on to the next iteration; probes: the re-probes made
AttemptOutcome(action, rc, probe) ==
    IF rc = 0
    THEN IF NeedsVerify(action)
         THEN [res |-> IF IsActive(probe) THEN "true" ELSE "retry",
               probes |-> 1]
         ELSE [res |-> "true", probes |-> 0]
    ELSE [res |-> "retry", probes |-> 0]

\* the RETRY_DELAY sleep at the end of iteration att (from 0): reached only
\* after a failed command, and not after the last iteration
DelayAfter(att, rc) == rc # 0 /\ att < RETRY_COUNT - 1

MoreAttempts_OneMore(n) == n <= RETRY_COUNT

\* for attempt in range(RETRY_COUNT): another iteration follows n iterations
MoreAttempts(n) == n < RETRY_COUNT

NoEvent ==
    [svc |-> "none", kind |-> "none", before |-> 0, lastBefore |-> 0,
     gateFailures |-> 0, gateNow |-> 0, invoked |-> FALSE, sent |-> FALSE,
     verified |-> FALSE, pendingBefore |-> FALSE, after |-> 0, lastAfter |-> 0,
     exists |-> FALSE, masked |-> FALSE, probed |-> FALSE]

NoScen == [n |-> 0, f |-> 0, at |-> {}, t10 |-> 0, ok |-> FALSE]

Cur == SERVICES[idx]

NoExit == 0 - 1

\* history of run(): whether acquire_lock returned True, whether an exception
\* reached the handler of run(), and the steps of the finally clause
NoRun == [acquired |-> FALSE, raised |-> FALSE, cleanup |-> <<>>]

\* __init__ before the root check: the flag is set, nothing has run
RunIdle ==
    /\ saved = EmptyTable
    /\ running = TRUE
    /\ isRoot = TRUE
    /\ exitCode = NoExit
    /\ slice = 0
    /\ runHist = NoRun

Init ==
    /\ RunIdle
    /\ lockFile = NoFile
    /\ lpc = [p \in Procs |-> "idle"]
    /\ readPid = [p \in Procs |-> 0]
    /\ startFile = [p \in Procs |-> NoFile]
    /\ solo = [p \in Procs |-> FALSE]
    /\ creates = [p \in Procs |-> 0]
    /\ SERVICES \in Configs
    /\ DAEMON_MODE \in BOOLEAN
    /\ state = EmptyTable
    /\ stateFile = Missing
    /\ now = StartTime
    /\ pc = "check"
    /\ idx = 1
    /\ attempt = 0
    /\ success = FALSE
    /\ trace = <<>>
    /\ ev = NoEvent
    /\ alertTimes = [k \in Names |-> <<>>]
    /\ pendingSend = [k \in Names |-> FALSE]
    /\ scen = [k \in Names |-> NoScen]

LockInit ==
    /\ RunIdle
    /\ lockFile \in InitialLockFiles
    /\ lpc = [p \in Procs |-> "idle"]
    /\ readPid = [p \in Procs |-> 0]
    /\ startFile = [p \in Procs |-> NoFile]
    /\ solo = [p \in Procs |-> FALSE]
    /\ creates = [p \in Procs |-> 0]
    /\ SERVICES = <<>>
    /\ DAEMON_MODE = FALSE
    /\ state = EmptyTable
    /\ stateFile = Missing
    /\ now = StartTime
    /\ pc = "lock"
    /\ idx = 1
    /\ attempt = 0
    /\ success = FALSE
    /\ trace = <<>>
    /\ ev = NoEvent
    /\ alertTimes = [k \in Names |-> <<>>]
    /\ pendingSend = [k \in Names |-> FALSE]
    /\ scen = [k \in Names |-> NoScen]

\* a step of p ends the undisturbed call of every other process
Acted(p) == [q \in Procs |-> IF q = p THEN solo[q] ELSE FALSE]

\* run() calls acquire_lock
StartAcquire(p) ==
    /\ lpc[p] = "idle"
    /\ lpc' = [lpc EXCEPT ![p] = "create"]
    /\ startFile' = [startFile EXCEPT ![p] = lockFile]
    /\ solo' = [Acted(p) EXCEPT ![p] = TRUE]
    /\ creates' = [creates EXCEPT ![p] = 0]
    /\ UNCHANGED <<lockFile, readPid>>
    /\ UNCHANGED <<monVars, runVars>>

\* os.open(lock_file, O_CREAT | O_EXCL | O_RDWR)
CreateExclusive(p) ==
    /\ lpc[p] = "create"
    /\ IF lockFile = NoFile
       THEN /\ lockFile' = [ino |-> p, data |-> <<>>]
            /\ lpc' = [lpc EXCEPT ![p] = "write"]
       ELSE /\ lpc' = [lpc EXCEPT ![p] = "read"]      \* FileExistsError
            /\ UNCHANGED lockFile
    /\ creates' = [creates EXCEPT ![p] = @ + 1]
    /\ solo' = Acted(p)
    /\ UNCHANGED <<readPid, startFile>>
    /\ UNCHANGED <<monVars, runVars>>

\* os.write(fd, str(os.getpid()).encode()); os.close(fd); return True
\* the write goes to the file p created, which may have been unlinked since
WritePid(p) ==
    /\ lpc[p] = "write"
    /\ lockFile' = IF lockFile # NoFile /\ lockFile.ino = p
                   THEN [lockFile EXCEPT !.data = StrOfPid(p)]
                   ELSE lockFile
    /\ lpc' = [lpc EXCEPT ![p] = "held"]
    /\ solo' = Acted(p)
    /\ UNCHANGED <<readPid, startFile, creates>>
    /\ UNCHANGED <<monVars, runVars>>

\* with open(lock_file, 'r') as f: pid = int(f.read().strip())
ReadLock(p) ==
    /\ lpc[p] = "read"
    /\ IF lockFile = NoFile \/ ParsePid(lockFile.data) = ValueError
       THEN /\ lpc' = [lpc EXCEPT ![p] = "remove"]    \* OSError, ValueError
            /\ UNCHANGED readPid
       ELSE /\ readPid' = [readPid EXCEPT ![p] = ParsePid(lockFile.data)]
            /\ lpc' = [lpc EXCEPT ![p] = "kill"]
    /\ solo' = Acted(p)
    /\ UNCHANGED <<lockFile, startFile, creates>>
    /\ UNCHANGED <<monVars, runVars>>

CheckAlive_NeverStale(p) ==
    /\ lpc[p] = "kill"
    /\ lpc' = [lpc EXCEPT ![p] = "failed"]
    /\ solo' = Acted(p)
    /\ UNCHANGED <<lockFile, readPid, startFile, creates>>
    /\ UNCHANGED <<monVars, runVars>>

\* os.kill(pid, 0); return False
CheckAlive(p) ==
    /\ lpc[p] = "kill"
    /\ lpc' = [lpc EXCEPT ![p] = IF ProcessExists(readPid[p])
                                 THEN "failed" ELSE "remove"]
    /\ solo' = Acted(p)
    /\ UNCHANGED <<lockFile, readPid, startFile, creates>>
    /\ UNCHANGED <<monVars, runVars>>

\* os.remove(lock_file); return self.acquire_lock()
\* a missing file raises FileNotFoundError out of the except clause
RemoveStale(p) ==
    /\ lpc[p] = "remove"
    /\ IF lockFile = NoFile
       THEN /\ lpc' = [lpc EXCEPT ![p] = "error"]
            /\ UNCHANGED lockFile
       ELSE /\ lockFile' = NoFile
            /\ lpc' = [lpc EXCEPT ![p] = "create"]
    /\ solo' = Acted(p)
    /\ UNCHANGED <<readPid, startFile, creates>>
    /\ UNCHANGED <<monVars, runVars>>

\* release_lock: if self.lock_file.exists()
ReleaseCheck(p) ==
    /\ lpc[p] = "held"
    /\ lpc' = [lpc EXCEPT ![p] = IF lockFile = NoFile
                                 THEN "exited" ELSE "rel_remove"]
    /\ solo' = Acted(p)
    /\ UNCHANGED <<lockFile, readPid, startFile, creates>>
    /\ UNCHANGED <<monVars, runVars>>

\* release_lock: os.remove(lock_file), any exception swallowed
ReleaseRemove(p) ==
    /\ lpc[p] = "rel_remove"
    /\ lockFile' = NoFile
    /\ lpc' = [lpc EXCEPT ![p] = "exited"]
    /\ solo' = Acted(p)
    /\ UNCHANGED <<readPid, startFile, creates>>
    /\ UNCHANGED <<monVars, runVars>>

\* the process is killed (SIGKILL) while it owns the file: nothing is cleaned up
Killed(p) ==
    /\ lpc[p] \in {"write", "held"}
    /\ lpc' = [lpc EXCEPT ![p] = "killed"]
    /\ solo' = Acted(p)
    /\ UNCHANGED <<lockFile, readPid, startFile, creates>>
    /\ UNCHANGED <<monVars, runVars>>

LockNext ==
    \E p \in Procs :
        \/ StartAcquire(p)
        \/ CreateExclusive(p)
        \/ WritePid(p)
        \/ ReadLock(p)
        \/ CheckAlive(p)
        \/ RemoveStale(p)
        \/ ReleaseCheck(p)
        \/ ReleaseRemove(p)
        \/ Killed(p)

LockSpec == LockInit /\ [][LockNext]_vars

(***************************************************************************)
(* check_service, perform_action and the loop of run                       *)
(***************************************************************************)
Name == Cur.name

EventOf(kind) ==
    [NoEvent EXCEPT !.svc = Name, !.kind = kind,
                    !.before = Failures(state, Name),
                    !.lastBefore = LastAlert(state, Name),
                    !.pendingBefore = pendingSend[Name],
                    !.after = Failures(state, Name),
                    !.lastAfter = LastAlert(state, Name)]

\* the run of failed cycles of a service, extended by one failed cycle
ScenStep(sc, fresh, invoked, f, t) ==
    LET k == IF fresh THEN 1 ELSE sc.n + 1
        base == IF fresh THEN [NoScen EXCEPT !.ok = TRUE] ELSE sc
        tenth == IF k = ALERT_THRESHOLD THEN t ELSE base.t10
    IN  IF ~fresh /\ sc.n = 0
        THEN NoScen
        ELSE [n |-> k,
              f |-> f,
              at |-> IF invoked THEN base.at \cup {k} ELSE base.at,
              t10 |-> tenth,
              ok |-> base.ok /\ (k > ALERT_THRESHOLD => t - tenth < ALERT_RATE_LIMIT)]

\* check_service returns early: the service does not exist or is masked
CheckService_Skip ==
    /\ pc = "check"
    /\ idx <= Len(SERVICES)
    /\ \E x \in ExistsResults, en \in EnabledResults :
         /\ ~ServiceExists(x) \/ IsMasked(en)
         /\ ev' = [EventOf("skip") EXCEPT
                     !.exists = x = 0,
                     !.masked = x = 0 /\ en.out = S_masked]
    /\ scen' = [scen EXCEPT ![Name] = NoScen]
    /\ idx' = idx + 1
    /\ UNCHANGED <<SERVICES, DAEMON_MODE, state, stateFile, now, pc, attempt,
                   success, trace, alertTimes, pendingSend>>
    /\ UNCHANGED <<lockVars, runVars>>

\* the probe reports active: reset the failure counter
CheckService_Active ==
    /\ pc = "check"
    /\ idx <= Len(SERVICES)
    /\ \E probe \in ProbeResults : IsActive(probe)
    /\ LET t1 == Touch(state, Name)
       IN  IF t1[Name].failures > 0
           THEN /\ state' = ResetFailures(t1, Name)
                /\ stateFile' = SaveState(state', stateFile)
           ELSE /\ state' = t1
                /\ UNCHANGED stateFile
    /\ \E x \in ExistsResults, en \in EnabledResults :
         /\ ServiceExists(x) /\ ~IsMasked(en)
         /\ ev' = [EventOf("active") EXCEPT
                     !.exists = x = 0,
                     !.masked = en.out = S_masked,
                     !.probed = TRUE,
                     !.after = Failures(state', Name),
                     !.lastAfter = LastAlert(state', Name)]
    /\ scen' = [scen EXCEPT ![Name] = NoScen]
    /\ idx' = idx + 1
    /\ UNCHANGED <<SERVICES, DAEMON_MODE, now, pc, attempt, success, trace,
                   alertTimes, pendingSend>>
    /\ UNCHANGED <<lockVars, runVars>>

\* the probe reports not active: count the failure, save, enter perform_action
CheckService_Inactive ==
    /\ pc = "check"
    /\ idx <= Len(SERVICES)
    /\ Failures(state, Name) < FailureCap(idx)
    /\ \E probe \in ProbeResults : ~IsActive(probe)
    /\ state' = CountFailure(Touch(state, Name), Name)
    /\ stateFile' = SaveState(state', stateFile)
    /\ \E x \in ExistsResults, en \in EnabledResults :
         /\ ServiceExists(x) /\ ~IsMasked(en)
         /\ ev' = [EventOf("inactive") EXCEPT
                     !.exists = x = 0,
                     !.masked = en.out = S_masked,
                     !.probed = TRUE,
                     !.after = Failures(state', Name),
                     !.lastAfter = LastAlert(state', Name)]
    /\ attempt' = 0
    /\ trace' = <<>>
    /\ success' = FALSE
    /\ pc' = IF Cur.action \in ValidActions THEN "recover" ELSE "gate"
    /\ UNCHANGED <<SERVICES, DAEMON_MODE, now, idx, alertTimes, pendingSend, scen>>
    /\ UNCHANGED <<lockVars, runVars>>

\* one iteration of the retry loop of perform_action
Attempt ==
    /\ pc = "recover"
    /\ \E rc \in CmdResults, probe \in ProbeResults :
         LET o == AttemptOutcome(Cur.action, rc, probe)
         IN  /\ trace' = Append(trace,
                    [ok |-> rc = 0, probes |-> o.probes,
                     slept |-> DelayAfter(attempt, rc),
                     active |-> o.probes > 0 /\ probe.rc = 0
                                /\ probe.out = S_active])
             /\ attempt' = attempt + 1
             /\ IF o.res = "true"
                THEN pc' = "gate" /\ success' = TRUE
                ELSE IF MoreAttempts(attempt + 1)
                     THEN pc' = "recover" /\ success' = FALSE
                     ELSE pc' = "gate" /\ success' = FALSE
    /\ UNCHANGED <<SERVICES, DAEMON_MODE, state, stateFile, now, idx, ev,
                   alertTimes, pendingSend, scen>>
    /\ UNCHANGED <<lockVars, runVars>>

\* perform_action returned True: reset the failure counter and save
RecoverySucceeded ==
    /\ pc = "gate"
    /\ success
    /\ state' = ResetFailures(state, Name)
    /\ stateFile' = SaveState(state', stateFile)
    /\ ev' = [ev EXCEPT !.kind = "recovered",
                        !.verified = trace[Len(trace)].probes > 0
                                     /\ trace[Len(trace)].active,
                        !.gateFailures = state[Name].failures,
                        !.gateNow = now,
                        !.after = Failures(state', Name),
                        !.lastAfter = LastAlert(state', Name)]
    /\ scen' = [scen EXCEPT ![Name] = NoScen]
    /\ pc' = "check"
    /\ idx' = idx + 1
    /\ trace' = <<>>
    /\ UNCHANGED <<SERVICES, DAEMON_MODE, now, attempt, success, alertTimes,
                   pendingSend>>
    /\ UNCHANGED <<lockVars, runVars>>

\* perform_action returned False and the alert condition is false
RecoveryFailed_NoAlert ==
    /\ pc = "gate"
    /\ ~success
    /\ ~ShouldAlert(state[Name], Cur.alarm, now)
    /\ ev' = [ev EXCEPT !.kind = "failed",
                        !.gateFailures = state[Name].failures,
                        !.gateNow = now]
    /\ scen' = [scen EXCEPT ![Name] =
                  ScenStep(scen[Name], ev.before = 0 /\ ev.lastBefore = 0,
                           FALSE, state[Name].failures, now)]
    /\ pc' = "check"
    /\ idx' = idx + 1
    /\ trace' = <<>>
    /\ UNCHANGED <<SERVICES, DAEMON_MODE, state, stateFile, now, attempt,
                   success, alertTimes, pendingSend>>
    /\ UNCHANGED <<lockVars, runVars>>

\* perform_action returned False and the alert condition is true:
\* send_alert, then last_alert = current_time and save, whatever send_email returned
RecoveryFailed_Alert ==
    /\ pc = "gate"
    /\ ~success
    /\ ShouldAlert(state[Name], Cur.alarm, now)
    /\ state' = RecordAlert(state, Name, now)
    /\ stateFile' = SaveState(state', stateFile)
    /\ alertTimes' = [alertTimes EXCEPT ![Name] = Append(@, now)]
    /\ \E sent \in BOOLEAN :
         /\ ev' = [ev EXCEPT !.kind = "failed",
                             !.gateFailures = state[Name].failures,
                             !.gateNow = now,
                             !.invoked = TRUE,
                             !.sent = sent,
                             !.after = Failures(state', Name),
                             !.lastAfter = LastAlert(state', Name)]
         /\ pendingSend' = [pendingSend EXCEPT ![Name] = ~sent]
         /\ scen' = [scen EXCEPT ![Name] =
                       ScenStep(scen[Name], ev.before = 0 /\ ev.lastBefore = 0,
                                TRUE, state[Name].failures, now)]
    /\ pc' = "check"
    /\ idx' = idx + 1
    /\ trace' = <<>>
    /\ UNCHANGED <<SERVICES, DAEMON_MODE, now, attempt, success>>
    /\ UNCHANGED <<lockVars, runVars>>

\* continuous mode: all services checked, wait and begin the next cycle
NextCycle ==
    /\ pc = "check"
    /\ idx = Len(SERVICES) + 1
    /\ DAEMON_MODE
    /\ idx' = 1
    /\ UNCHANGED <<SERVICES, DAEMON_MODE, state, stateFile, now, pc, attempt,
                   success, trace, ev, alertTimes, pendingSend, scen>>
    /\ UNCHANGED <<lockVars, runVars>>

\* one-shot mode: break, then finally: save_state() and the process ends
ExitOneShot ==
    /\ pc = "check"
    /\ idx = Len(SERVICES) + 1
    /\ ~DAEMON_MODE
    /\ stateFile' = SaveState(state, stateFile)
    /\ pc' = "exited"
    /\ UNCHANGED <<SERVICES, DAEMON_MODE, state, now, idx, attempt, success,
                   trace, ev, alertTimes, pendingSend, scen>>
    /\ UNCHANGED <<lockVars, runVars>>

\* the monitor is started again: __init__ loads the state file
Restart ==
    /\ pc = "exited"
    /\ state' = LoadState(stateFile)
    /\ pc' = "check"
    /\ idx' = 1
    /\ UNCHANGED <<SERVICES, DAEMON_MODE, stateFile, now, attempt, success,
                   trace, ev, alertTimes, pendingSend, scen>>
    /\ UNCHANGED <<lockVars, runVars>>

\* the wall clock advances
Tick ==
    /\ pc \in {"check", "recover", "gate", "exited"}
    /\ \E d \in Deltas :
         /\ now + d <= MaxNow
         /\ now' = now + d
    /\ UNCHANGED <<SERVICES, DAEMON_MODE, state, stateFile, pc, idx, attempt,
                   success, trace, ev, alertTimes, pendingSend, scen>>
    /\ UNCHANGED <<lockVars, runVars>>

Next ==
    \/ CheckService_Skip
    \/ CheckService_Active
    \/ CheckService_Inactive
    \/ Attempt
    \/ RecoverySucceeded
    \/ RecoveryFailed_NoAlert
    \/ RecoveryFailed_Alert
    \/ NextCycle
    \/ ExitOneShot
    \/ Restart
    \/ Tick

Spec == Init /\ [][Next]_vars

(***************************************************************************)
(* The state store alone: save_state, load_state, crash and restart        *)
(***************************************************************************)
\* the valid state tables: name -> {failures: int, last_alert: number}
StoredEntries == [failures : 0..MaxStored, last_alert : {0, StartTime}]
Tables == UNION { [D -> StoredEntries] : D \in SUBSET Names }

\* what the store actions leave alone
storeFrame ==
    <<lockVars, SERVICES, DAEMON_MODE, now, idx, attempt, success, trace, ev,
      alertTimes, pendingSend, scen, running, isRoot, exitCode, slice, runHist>>

\* a monitor starts on a state file that is absent or is no JSON text
StoreInit ==
    /\ RunIdle
    /\ lockFile = NoFile
    /\ lpc = [p \in Procs |-> "idle"]
    /\ readPid = [p \in Procs |-> 0]
    /\ startFile = [p \in Procs |-> NoFile]
    /\ solo = [p \in Procs |-> FALSE]
    /\ creates = [p \in Procs |-> 0]
    /\ SERVICES = <<>>
    /\ DAEMON_MODE = FALSE
    /\ stateFile \in {Missing, NotJson}
    /\ state = LoadState(stateFile)
    /\ now = StartTime
    /\ pc = "idle"
    /\ idx = 1
    /\ attempt = 0
    /\ success = FALSE
    /\ trace = <<>>
    /\ ev = NoEvent
    /\ alertTimes = [k \in Names |-> <<>>]
    /\ pendingSend = [k \in Names |-> FALSE]
    /\ scen = [k \in Names |-> NoScen]

\* the service checks change the in-memory table
StoreMutate ==
    /\ pc = "idle"
    /\ \E t \in Tables : t # state /\ state' = t
    /\ UNCHANGED <<stateFile, pc, saved>>
    /\ UNCHANGED storeFrame

\* save_state, open(self.state_file, 'w'): the file is created or truncated
SaveOpen ==
    /\ pc = "idle"
    /\ stateFile' = Truncated
    /\ pc' = "saving"
    /\ UNCHANGED <<state, saved>>
    /\ UNCHANGED storeFrame

\* save_state, json.dump(...) and the close of the file
SaveWrite ==
    /\ pc = "saving"
    /\ stateFile' = SaveState(state, stateFile)
    /\ saved' = state
    /\ pc' = "idle"
    /\ UNCHANGED state
    /\ UNCHANGED storeFrame

\* the process is killed, between two saves or inside one
StoreCrash ==
    /\ pc \in {"idle", "saving"}
    /\ pc' = "crashed"
    /\ UNCHANGED <<state, stateFile, saved>>
    /\ UNCHANGED storeFrame

\* a later run of the monitor: __init__ calls load_state
StoreLoad ==
    /\ pc \in {"idle", "crashed"}
    /\ state' = LoadState(stateFile)
    /\ pc' = "idle"
    /\ UNCHANGED <<stateFile, saved>>
    /\ UNCHANGED storeFrame

StoreNext ==
    \/ StoreMutate
    \/ SaveOpen
    \/ SaveWrite
    \/ StoreCrash
    \/ StoreLoad

StoreSpec == StoreInit /\ [][StoreNext]_vars

\* acquire_lock has returned True and the process has not begun to release
Holding(p) == lpc[p] = "held"

\* C1: at most one process holds the lock at any time: no two live processes
\* have both had acquire_lock return true with neither yet released.
C1_MutualExclusion ==
    \A p \in Procs : \A q \in Procs :
        (Holding(p) /\ Holding(q)) => p = q

(***************************************************************************)
(* Properties of the lock guard (LockSpec)                                 *)
(***************************************************************************)
\* the lock file as acquire_lock leaves it for the caller p
OwnLock(p) == [ino |-> p, data |-> StrOfPid(p)]

RecordsPid(f) == f # NoFile /\ ParsePid(f.data) # ValueError

\* C2: when no other process acts during the call, acquire_lock returns true
\* with the lock file recording the caller's pid if no lock file existed or
\* if it recorded the pid of a process that no longer exists, and returns
\* false leaving the lock file unchanged if it recorded the pid of a process
\* that still exists.
C2_SoloOutcome ==
    \A p \in Procs :
        (solo[p] /\ lpc[p] \in {"held", "failed", "error"}) =>
            LET f == startFile[p]
            IN  /\ f = NoFile => (lpc[p] = "held" /\ lockFile = OwnLock(p))
                /\ (RecordsPid(f) /\ ProcessExists(ParsePid(f.data)))
                      => (lpc[p] = "failed" /\ lockFile = f)
                /\ (RecordsPid(f) /\ ~ProcessExists(ParsePid(f.data)))
                      => (lpc[p] = "held" /\ lockFile = OwnLock(p))

\* an undisturbed call has reclaimed a lock that recorded a dead pid
C2_Witness ==
    \E p \in Procs :
        /\ solo[p]
        /\ lpc[p] = "held"
        /\ RecordsPid(startFile[p])
        /\ ~ProcessExists(ParsePid(startFile[p].data))
        /\ lockFile = OwnLock(p)

(***************************************************************************)
(* Properties of the service checks (Spec)                                 *)
(***************************************************************************)
ConfigOf(k) == SERVICES[CHOOSE i \in 1..Len(SERVICES) : SERVICES[i].name = k]
Configured(k) == \E i \in 1..Len(SERVICES) : SERVICES[i].name = k

\* C3: the alert decision is never true twice for the same service at two
\* times less than ALERT_RATE_LIMIT seconds apart.
C3_RateLimit ==
    \A k \in Names :
        \A i \in 1..Len(alertTimes[k]) : \A j \in 1..Len(alertTimes[k]) :
            i < j => alertTimes[k][j] - alertTimes[k][i] >= ALERT_RATE_LIMIT

\* a service has been alerted twice, and its latest failed cycle raised no alert
C3_Witness ==
    \E k \in Names :
        /\ Len(alertTimes[k]) >= 2
        /\ ev.svc = k
        /\ ev.kind = "failed"
        /\ ~ev.invoked
        /\ ev.gateFailures > ALERT_THRESHOLD

\* C4: after a failed recovery the notifier is invoked if and only if the
\* service has its alarm enabled, failures >= ALERT_THRESHOLD and
\* now - last_alert >= ALERT_RATE_LIMIT.
C4_AlertIff ==
    ev.kind = "failed" =>
        /\ ev.gateFailures = ev.before + 1
        /\ ev.invoked <=>
              /\ ConfigOf(ev.svc).alarm
              /\ ev.gateFailures >= ALERT_THRESHOLD
              /\ ev.gateNow - ev.lastBefore >= ALERT_RATE_LIMIT

\* the alert fired in the cycle in which failures first reached the threshold
C4_Witness ==
    /\ ev.kind = "failed"
    /\ ev.invoked
    /\ ev.gateFailures = ALERT_THRESHOLD

\* C5: last_alert of a service changes in a check only if the notifier was
\* invoked for it in that check and its send returned true.
C5_StampOnlyOnSend ==
    ev.lastAfter # ev.lastBefore => (ev.invoked /\ ev.sent)

\* C6: after a send that returned false, the next failed cycle of the service
\* with the alarm enabled and failures >= ALERT_THRESHOLD invokes the notifier
\* again, whatever time has passed; and a failed send leaves failures unchanged.
C6_FailedSendRetried ==
    /\ (ev.kind = "failed" /\ ev.pendingBefore /\ ConfigOf(ev.svc).alarm
            /\ ev.gateFailures >= ALERT_THRESHOLD) => ev.invoked
    /\ (ev.kind = "failed" /\ ev.invoked /\ ~ev.sent) => ev.after = ev.gateFailures

\* an attempt of the running perform_action call failed
AttemptFailed(a) == ~a.ok \/ (a.probes > 0 /\ ~a.active)

\* C7: one call of perform_action invokes the action command at most
\* RETRY_COUNT times, and it returns false only after RETRY_COUNT attempts
\* that each failed, by command failure or by failed post-verification.
C7_RetryBound ==
    /\ Len(trace) <= RETRY_COUNT
    /\ attempt = Len(trace) \/ pc \notin {"recover", "gate"}
    /\ (pc = "gate" /\ ~success) =>
          /\ Len(trace) = RETRY_COUNT
          /\ \A i \in 1..Len(trace) : AttemptFailed(trace[i])

\* perform_action returned false after both a command failure and a failed
\* post-verification
C7_Witness ==
    /\ pc = "gate"
    /\ ~success
    /\ \E i \in 1..Len(trace) : trace[i].ok
    /\ \E i \in 1..Len(trace) : ~trace[i].ok

\* C8: perform_action returns true iff some attempt's command succeeds and,
\* for start, restart and try-restart, the one re-probe made after it reports
\* active; mask, stop and reload are never re-probed; no re-probe follows a
\* failed command; and no attempt follows the first successful one.
C8_ResultByKind ==
    pc \in {"recover", "gate"} =>
        LET verify == Cur.action \in {"start", "restart", "try-restart"}
            won(a) == a.ok /\ (verify => (a.probes = 1 /\ a.active))
        IN  /\ \A i \in 1..Len(trace) :
                  /\ trace[i].probes = IF verify /\ trace[i].ok THEN 1 ELSE 0
                  /\ won(trace[i]) => i = Len(trace)
            /\ pc = "recover" => \A i \in 1..Len(trace) : ~won(trace[i])
            /\ pc = "gate" => (success <=> \E i \in 1..Len(trace) : won(trace[i]))

\* a verified action succeeded on a later attempt after a failed re-probe
C8_Witness ==
    /\ pc = "gate"
    /\ success
    /\ Cur.action = "try-restart"
    /\ Len(trace) >= 2
    /\ trace[1].ok

\* what a finished check did to the failure counter
CounterOfCycle ==
    /\ ev.kind = "failed" => ev.after = ev.before + 1
    /\ ev.kind \in {"active", "recovered"} => ev.after = 0
    /\ ev.kind = "skip" => ev.after = ev.before

\* the failure counter changes only by 1 up on an inactive observation, or
\* to 0 in a check that observed the service active or recovered it
CounterStep(onlyVerified) ==
    \A k \in Names :
        Failures(state', k) # Failures(state, k) =>
            \/ /\ Failures(state', k) = Failures(state, k) + 1
               /\ pc = "check" /\ pc' \in {"recover", "gate"}
               /\ ev'.svc = k /\ ev'.kind = "inactive"
            \/ /\ Failures(state', k) = 0
               /\ pc = "check" /\ idx' = idx + 1
               /\ ev'.svc = k /\ ev'.kind = "active"
            \/ /\ Failures(state', k) = 0
               /\ pc = "gate"
               /\ ev'.svc = k /\ ev'.kind = "recovered"
               /\ onlyVerified => ev'.verified

\* C9 (as stated): failures rises by exactly 1 in each cycle in which the
\* service is observed inactive and not recovered, is 0 after a cycle in which
\* it is observed active or recovered, and is reset to 0 only when the service
\* is observed active or a recovery attempt succeeds and is verified.
C9_ResetOnlyVerified ==
    [][CounterStep(TRUE) /\ CounterOfCycle']_vars

\* C9 (amended): as above, the reset after a recovery happening whenever
\* perform_action returns true: after a verified attempt for start, restart
\* and try-restart, on command success alone for mask, stop and reload.
C9_FailureCounter ==
    [][/\ CounterStep(FALSE)
       /\ CounterOfCycle'
       /\ (ev'.kind = "recovered" /\ NeedsVerify(ConfigOf(ev'.svc).action))
             => ev'.verified]_vars

\* a counter of 2 or more was reset by a recovery that was not verified
C9_Witness ==
    /\ ev.kind = "recovered"
    /\ ~ev.verified
    /\ ev.before >= 1
    /\ ev.after = 0

\* C10: for a service with action restart and the alarm enabled, in a run of
\* consecutive failed cycles that began with failures = 0 and last_alert = 0
\* and whose cycles after the ALERT_THRESHOLD-th fall within ALERT_RATE_LIMIT
\* seconds of it, the notifier is invoked exactly once, in the
\* ALERT_THRESHOLD-th cycle, and failures equals the number of cycles.
C10_Escalation ==
    \A k \in Names :
        (/\ Configured(k)
         /\ ConfigOf(k).action = "restart"
         /\ ConfigOf(k).alarm
         /\ scen[k].n > 0
         /\ scen[k].ok) =>
            /\ scen[k].f = scen[k].n
            /\ scen[k].at = IF scen[k].n >= ALERT_THRESHOLD
                            THEN {ALERT_THRESHOLD} ELSE {}

\* the run went on past the cycle of the alert, within the rate-limit window
C10_Witness ==
    \E k \in Names :
        /\ Configured(k)
        /\ ConfigOf(k).action = "restart"
        /\ ConfigOf(k).alarm
        /\ scen[k].ok
        /\ scen[k].n > ALERT_THRESHOLD
        /\ scen[k].at = {ALERT_THRESHOLD}

\* the step in which check_service ends after perform_action returned true
RecoveredStep == pc = "gate" /\ success /\ pc' = "check"

\* C11: in a cycle in which a service is observed inactive and perform_action
\* returns true, the cycle ends with failures = 0 for the service, in memory
\* and in the state file, the notifier is not invoked and last_alert is what
\* it was before the cycle, whatever failures and the alarm flag were.
C11_RecoverySendsNothing ==
    [][RecoveredStep =>
         /\ Failures(state', Name) = 0
         /\ Failures(LoadState(stateFile'), Name) = 0
         /\ alertTimes' = alertTimes
         /\ pendingSend' = pendingSend
         /\ ~ev'.invoked
         /\ LastAlert(state', Name) = ev.lastBefore
         /\ LastAlert(LoadState(stateFile'), Name) = ev.lastBefore]_vars

\* a recovery succeeded in the cycle that took the counter to the threshold,
\* the alarm enabled and no alert sent before
C11_Witness ==
    /\ ev.kind = "recovered"
    /\ ev.before + 1 = ALERT_THRESHOLD
    /\ ev.lastBefore = 0
    /\ ConfigOf(ev.svc).alarm
    /\ ev.after = 0

\* a step of check_service from its start: it returns at once (skip, active)
\* or it enters the recovery
CheckStep ==
    /\ pc = "check"
    /\ idx <= Len(SERVICES)
    /\ idx' = idx + 1 \/ pc' # "check"

\* the host reports that the service does not exist, or that it is masked
Unavailable(e) == ~e.exists \/ e.masked

\* C12: for a configured service that does not exist on the host or that is
\* masked, check_service makes no liveness probe, starts no recovery, sends
\* no notification and leaves the state table and the state file unchanged.
C12_SkippedUntouched ==
    [][(CheckStep /\ Unavailable(ev')) =>
         /\ ev'.kind = "skip"
         /\ ~ev'.probed
         /\ pc' = "check"
         /\ UNCHANGED <<state, stateFile, alertTimes, pendingSend, attempt,
                        trace>>]_vars

\* a masked service with failures counted earlier was skipped
C12_Witness ==
    /\ ev.kind = "skip"
    /\ ev.masked
    /\ Failures(state, ev.svc) > 0
    /\ Failures(LoadState(stateFile), ev.svc) > 0

\* C18: within one call of perform_action, every attempt that is followed by
\* another attempt is followed by the RETRY_DELAY wait first, whether it
\* failed by its command or by its re-probe.
C18_DelayBetweenAttempts ==
    \A i \in 1..(Len(trace) - 1) : trace[i].slept

\* the recovery work of a check is under way: from the return of the first
\* save to the return of perform_action
InRecovery == pc \in {"recover", "gate"}

\* C19: when a service is observed not active, failures is incremented and
\* the table saved before the first recovery command: at every point of the
\* recovery work the state file, which a monitor started after a crash would
\* load, holds the previous failures of the service plus 1.
C19_FailureRecordedFirst ==
    InRecovery =>
        /\ Failures(LoadState(stateFile), Name) = ev.before + 1
        /\ Failures(state, Name) = ev.before + 1

\* a point inside the recovery, after a failed attempt, counter above 1
C19_Witness ==
    /\ pc = "recover"
    /\ attempt >= 1
    /\ ev.before >= 1
    /\ Failures(LoadState(stateFile), Name) = ev.before + 1

\* the tables are equal as mappings with the default for an absent key
SameTable(t, u) ==
    \A k \in Names :
        /\ Failures(t, k) = Failures(u, k)
        /\ LastAlert(t, k) = LastAlert(u, k)

\* no service check is under way
BetweenChecks == pc \in {"check", "exited"}

\* C20: no save failing, at the end of every service check the persisted
\* table equals the in-memory table, an absent key standing for
\* {failures: 0, last_alert: 0}.
C20_PersistedTracksMemory ==
    BetweenChecks => SameTable(state, LoadState(stateFile))

\* between two checks the table holds a counted failure, and a key that the
\* file does not hold
C20_Witness ==
    /\ pc = "check"
    /\ \E k \in DOMAIN state : k \notin DOMAIN LoadState(stateFile)
    /\ \E j \in Names : /\ Failures(state, j) > 0
                        /\ Failures(LoadState(stateFile), j) > 0

(***************************************************************************)
(* The process from start to exit: __init__, run, the signal handler       *)
(***************************************************************************)
Self == 1                       \* pid of the monitor process of RunSpec

\* how a check_service call that returns can go
CheckOutcomes == {"skip", "active", "recovered", "failed"}

\* check_service as one step: what it leaves in the table and in the file.
\* o says how the check went; "raised" is an exception after the failure
\* was counted and saved (in a log call, in perform_action, in send_alert)
CheckEffect(t, f, cfg, o, time) ==
    LET k == cfg.name
        t1 == Touch(t, k)
        t2 == CountFailure(t1, k)
        reset1 == ResetFailures(t1, k)
        reset2 == ResetFailures(t2, k)
        alerted == RecordAlert(t2, k, time)
    IN  CASE o = "skip" -> [state |-> t, file |-> f]
          [] o = "active" ->
                IF t1[k].failures > 0
                THEN [state |-> reset1, file |-> SaveState(reset1, f)]
                ELSE [state |-> t1, file |-> f]
          [] o = "recovered" ->
                [state |-> reset2, file |-> SaveState(reset2, f)]
          [] o = "failed" ->
                IF ShouldAlert(t2[k], cfg.alarm, time)
                THEN [state |-> alerted, file |-> SaveState(alerted, f)]
                ELSE [state |-> t2, file |-> SaveState(t2, f)]
          [] o = "raised" -> [state |-> t2, file |-> SaveState(t2, f)]

\* acquire_lock with no other monitor acting: False on a lock file that
\* records a live pid, True otherwise
AcquireFails(file) ==
    /\ file # NoFile
    /\ ParsePid(file.data) # ValueError
    /\ ProcessExists(ParsePid(file.data))

ReleaseLock_Keep(file) == file

\* release_lock: if self.lock_file.exists(): os.remove(self.lock_file)
ReleaseLock(file) == IF file # NoFile THEN NoFile ELSE file

\* while self.running
LoopContinues(flag) == flag

WaitContinues_IgnoreFlag(flag, i) == i < CHECK_INTERVAL

\* for _ in range(CHECK_INTERVAL): if not self.running: break
WaitContinues(flag, i) == i < CHECK_INTERVAL /\ flag

\* what the actions of the process leave alone
runFrame ==
    <<lpc, readPid, startFile, solo, creates, SERVICES, DAEMON_MODE, now, attempt,
      success, trace, ev, alertTimes, pendingSend, scen, saved, isRoot>>

RunInit ==
    /\ lockFile \in InitialLockFiles
    /\ lpc = [p \in Procs |-> "idle"]
    /\ readPid = [p \in Procs |-> 0]
    /\ startFile = [p \in Procs |-> NoFile]
    /\ solo = [p \in Procs |-> FALSE]
    /\ creates = [p \in Procs |-> 0]
    /\ SERVICES \in Configs
    /\ DAEMON_MODE \in BOOLEAN
    /\ state = EmptyTable
    /\ stateFile = Missing
    /\ now = StartTime
    /\ pc = "init"
    /\ idx = 1
    /\ attempt = 0
    /\ success = FALSE
    /\ trace = <<>>
    /\ ev = NoEvent
    /\ alertTimes = [k \in Names |-> <<>>]
    /\ pendingSend = [k \in Names |-> FALSE]
    /\ scen = [k \in Names |-> NoScen]
    /\ saved = EmptyTable
    /\ running = TRUE
    /\ isRoot \in BOOLEAN
    /\ exitCode = NoExit
    /\ slice = 0
    /\ runHist = NoRun

\* __init__: sys.exit(1) unless root, else load_state
RootCheck ==
    /\ pc = "init"
    /\ IF isRoot
       THEN /\ state' = LoadState(stateFile)
            /\ pc' = "acquire"
            /\ UNCHANGED exitCode
       ELSE /\ exitCode' = 1
            /\ pc' = "exited"
            /\ UNCHANGED state
    /\ UNCHANGED <<lockFile, stateFile, idx, running, slice, runHist>>
    /\ UNCHANGED runFrame

\* run: if not self.acquire_lock(): sys.exit(1)
RunAcquire ==
    /\ pc = "acquire"
    /\ IF AcquireFails(lockFile)
       THEN /\ exitCode' = 1
            /\ pc' = "exited"
            /\ UNCHANGED <<lockFile, runHist>>
       ELSE /\ lockFile' = [ino |-> Self, data |-> StrOfPid(Self)]
            /\ runHist' = [runHist EXCEPT !.acquired = TRUE]
            /\ pc' = "loop"
            /\ UNCHANGED exitCode
    /\ UNCHANGED <<state, stateFile, idx, running, slice>>
    /\ UNCHANGED runFrame

\* signal_handler, on SIGINT or SIGTERM, between any two steps of the process
Signal ==
    /\ pc \notin {"init", "exited"}
    /\ running
    /\ running' = FALSE
    /\ UNCHANGED <<lockFile, state, stateFile, pc, idx, exitCode, slice, runHist>>
    /\ UNCHANGED runFrame

\* while self.running: the test holds, a cycle begins
BeginCycle ==
    /\ pc = "loop"
    /\ LoopContinues(running)
    /\ pc' = "check"
    /\ idx' = 1
    /\ UNCHANGED <<lockFile, state, stateFile, running, exitCode, slice,
                   runHist>>
    /\ UNCHANGED runFrame

\* while self.running: the test fails, on to the finally clause
LeaveLoop ==
    /\ pc = "loop"
    /\ ~LoopContinues(running)
    /\ pc' = "finally"
    /\ UNCHANGED <<lockFile, state, stateFile, idx, running, exitCode, slice,
                   runHist>>
    /\ UNCHANGED runFrame

\* one service of the cycle is checked and check_service returns
RunCheck ==
    /\ pc = "check"
    /\ idx <= Len(SERVICES)
    /\ \E o \in CheckOutcomes :
         LET r == CheckEffect(state, stateFile, Cur, o, now)
         IN  /\ Failures(r.state, Name) <= MaxRunFailures
             /\ state' = r.state
             /\ stateFile' = r.file
    /\ idx' = idx + 1
    /\ UNCHANGED <<lockFile, pc, running, exitCode, slice, runHist>>
    /\ UNCHANGED runFrame

\* an exception leaves check_service, before anything was changed or after
\* the failure was counted; except Exception logs it
RunCheckRaises ==
    /\ pc = "check"
    /\ idx <= Len(SERVICES)
    /\ \E o \in {"skip", "raised"} :
         LET r == CheckEffect(state, stateFile, Cur, o, now)
         IN  /\ Failures(r.state, Name) <= MaxRunFailures
             /\ state' = r.state
             /\ stateFile' = r.file
    /\ runHist' = [runHist EXCEPT !.raised = TRUE]
    /\ pc' = "finally"
    /\ UNCHANGED <<lockFile, idx, running, exitCode, slice>>
    /\ UNCHANGED runFrame

\* all services checked, one-shot mode: break
EndOneShot ==
    /\ pc = "check"
    /\ idx = Len(SERVICES) + 1
    /\ ~DAEMON_MODE
    /\ pc' = "finally"
    /\ UNCHANGED <<lockFile, state, stateFile, idx, running, exitCode, slice,
                   runHist>>
    /\ UNCHANGED runFrame

\* all services checked, continuous mode: enter the wait loop
BeginWait ==
    /\ pc = "check"
    /\ idx = Len(SERVICES) + 1
    /\ DAEMON_MODE
    /\ pc' = "wait"
    /\ slice' = 0
    /\ UNCHANGED <<lockFile, state, stateFile, idx, running, exitCode, runHist>>
    /\ UNCHANGED runFrame

\* one time.sleep(1) of the wait loop
WaitSlice ==
    /\ pc = "wait"
    /\ WaitContinues(running, slice)
    /\ slice' = slice + 1
    /\ UNCHANGED <<lockFile, state, stateFile, pc, idx, running, exitCode,
                   runHist>>
    /\ UNCHANGED runFrame

\* the wait loop ends, by its count or by the break
EndWait ==
    /\ pc = "wait"
    /\ ~WaitContinues(running, slice)
    /\ pc' = "loop"
    /\ UNCHANGED <<lockFile, state, stateFile, idx, running, exitCode, slice,
                   runHist>>
    /\ UNCHANGED runFrame

\* finally: self.save_state()
FinallySave ==
    /\ pc = "finally"
    /\ stateFile' = SaveState(state, stateFile)
    /\ runHist' = [runHist EXCEPT !.cleanup = Append(@, "save")]
    /\ pc' = "release"
    /\ UNCHANGED <<lockFile, state, idx, running, exitCode, slice>>
    /\ UNCHANGED runFrame

\* finally: self.release_lock(); run and main return, the interpreter
\* exits with status 0
FinallyRelease ==
    /\ pc = "release"
    /\ lockFile' = ReleaseLock(lockFile)
    /\ runHist' = [runHist EXCEPT !.cleanup = Append(@, "release")]
    /\ exitCode' = 0
    /\ pc' = "exited"
    /\ UNCHANGED <<state, stateFile, idx, running, slice>>
    /\ UNCHANGED runFrame

\* the steps of the process itself
RunProc ==
    \/ RootCheck
    \/ RunAcquire
    \/ BeginCycle
    \/ LeaveLoop
    \/ RunCheck
    \/ RunCheckRaises
    \/ EndOneShot
    \/ BeginWait
    \/ WaitSlice
    \/ EndWait
    \/ FinallySave
    \/ FinallyRelease

RunNext == RunProc \/ Signal

RunSpec == RunInit /\ [][RunNext]_vars

\* every step of the process ends: the external commands return and the
\* sleeps end
RunLive == RunSpec /\ WF_vars(RunProc)

(***************************************************************************)
(* Properties of the state store (StoreSpec)                               *)
(***************************************************************************)
\* the file holds what a completed save_state wrote
Complete(file) == file # Missing /\ ~JsonRaises(file)

C17_AtomicSave ==
    pc = "crashed" => LoadState(stateFile) \in {saved, state}

(***************************************************************************)
(* Properties of run (RunSpec, RunLive)                                    *)
(***************************************************************************)
\* C14: on every path by which run() ends after the lock was acquired
\* (one-shot completion, shutdown by signal, exception in a cycle) the
\* in-memory table is saved and then the lock file is removed before the
\* process exits; the lock file is not left in place.
C14_Cleanup ==
    (pc = "exited" /\ runHist.acquired) =>
        /\ runHist.cleanup = <<"save", "release">>
        /\ stateFile = JsonDump(state)
        /\ lockFile = NoFile

\* the process exited after an exception in a cycle that had counted a
\* failure; the flag was still set
C14_Witness ==
    /\ pc = "exited"
    /\ runHist.acquired
    /\ runHist.raised
    /\ running
    /\ \E k \in Names : Failures(state, k) > 0
    /\ lockFile = NoFile

\* the step in which a cycle begins, and the step in which a one-second
\* slice of the inter-cycle wait begins
BeginsCycle == pc = "loop" /\ pc' = "check"
BeginsSlice == pc = "wait" /\ slice' = slice + 1

\* C15: once a signal has cleared the running flag, no cycle begins and no
\* slice of the inter-cycle wait begins; and, every step of the process
\* ending, the process reaches its exit.
C15_Cancellation ==
    /\ [][(BeginsCycle \/ BeginsSlice) => running]_vars
    /\ (~running) ~> (pc = "exited")

\* a signal during the inter-cycle wait cut the wait short and the process
\* exited
C15_Witness ==
    /\ pc = "exited"
    /\ ~running
    /\ DAEMON_MODE
    /\ slice > 0
    /\ slice < CHECK_INTERVAL
    /\ exitCode = 0

\* C16: the exit status is 0 on normal completion and nonzero when the
\* process is not root, when the lock cannot be acquired and when an
\* unexpected error was raised inside the control loop.
C16_ExitStatus ==
    pc = "exited" =>
        IF isRoot /\ runHist.acquired /\ ~runHist.raised
        THEN exitCode = 0
        ELSE exitCode > 0

(***************************************************************************)
(* Further properties of the lock guard (LockSpec)                         *)
(***************************************************************************)
\* C21: within one call of acquire_lock a stale lock is removed and the
\* acquisition tried again at most once: the call makes at most two creation
\* attempts, whatever other processes do to the lock file meanwhile.
C21_BoundedRetry ==
    \A p \in Procs : creates[p] <= 2

\* a step of release_lock that removes the lock file
ReleaseRemoves(p) ==
    lpc[p] = "rel_remove" /\ lpc'[p] = "exited" /\ lockFile # NoFile

\* C22: release_lock removes the lock file only if the caller owns it: it
\* never removes a lock file that records the pid of another process.
C22_ReleaseOwnLock ==
    [][\A p \in Procs :
         ReleaseRemoves(p) => ParsePid(lockFile.data) \in {p, ValueError}]_vars

====
